---- MODULE Spec2Model ----
(***************************************************************************)
(* Body consumption (components/script/body.rs): consume_body, its driver  *)
(* consume_body_with_promise, the package-data dispatch and the five       *)
(* decoders, over one body Source (a request/response object implementing  *)
(* BodyOperations), the promises (Sinks) handed out for it and the script  *)
(* runtime's pending-exception state.                                      *)
(*                                                                         *)
(* Bytes are integers 0..255, strings are sequences of code points, UTF-16 *)
(* text is a sequence of code units.  A declared content type is a         *)
(* sequence of lexemes (a name, "/", ";", a parameter, a space, or the     *)
(* lexeme "<FF>" standing for a byte that is not valid UTF-8).             *)
(***************************************************************************)
EXTENDS Integers, Sequences, FiniteSets, TLC

VARIABLES
    body,          \* the Source's buffer: [st: NotYet | Done | Taken, bytes]
    body_used,     \* get_body_used()
    locked,        \* is_locked()
    mime_type,     \* get_mime_type(): the declared content type
    body_promise,  \* what set_body_promise registered: NoPromise or [sink, kind]
    sinks,         \* the promises created so far, in creation order
    cx,            \* the runtime: pending exception and object allocation
    decodes,       \* history: every run_package_data_algorithm invocation
    accepted,      \* history: the sinks whose consume_body call passed Step 1
    last           \* history: the last operation and what it did

vars ==
    <<body, body_used, locked, mime_type, body_promise, sinks, cx, decodes, accepted,
      last>>

(***************************************************************************)
(* Bounds of the model.                                                    *)
(***************************************************************************)
MaxSinks == 3
MaxBodyLen == 5
MaxParams == 1
MaxParses == 3
MaxPairs == 2
MaxBytesLen == 3

BodyType == {"Blob", "FormData", "Json", "Text", "ArrayBuffer"}

NoPromise == [sink |-> 0, kind |-> "none"]
NoPayload == [tag |-> "none"]

(***************************************************************************)
(* Small helpers on sequences.                                             *)
(***************************************************************************)
RECURSIVE SeqsUpTo(_, _)
SeqsUpTo(S, n) ==
    IF n = 0 THEN {<<>>}
    ELSE LET shorter == SeqsUpTo(S, n - 1)
         IN shorter \cup {Append(s, x) : s \in {t \in shorter : Len(t) = n - 1}, x \in S}

Drop(s, n) == SubSeq(s, n + 1, Len(s))

RECURSIVE IndexOf(_, _, _)
IndexOf(s, x, i) ==
    IF i > Len(s) THEN 0 ELSE IF s[i] = x THEN i ELSE IndexOf(s, x, i + 1)

(***************************************************************************)
(* String::from_utf8_lossy: every maximal ill-formed prefix becomes one    *)
(* U+FFFD (65533); well-formed sequences of 1 to 4 bytes become their code *)
(* point.                                                                  *)
(***************************************************************************)
IsCont(b, lo, hi) == Len(b) >= 1 /\ b[1] >= lo /\ b[1] <= hi

Utf8Second(b0) ==
    IF b0 = 224 THEN <<160, 191>>
    ELSE IF b0 = 237 THEN <<128, 159>>
    ELSE IF b0 = 240 THEN <<144, 191>>
    ELSE IF b0 = 244 THEN <<128, 143>>
    ELSE <<128, 191>>

Utf8Need(b0) ==
    IF b0 < 128 THEN 1
    ELSE IF b0 >= 194 /\ b0 <= 223 THEN 2
    ELSE IF b0 >= 224 /\ b0 <= 239 THEN 3
    ELSE IF b0 >= 240 /\ b0 <= 244 THEN 4
    ELSE 0

\* [cp, used]: the code point decoded at the head of b and the bytes consumed
Utf8Chunk(b) ==
    LET b0 == b[1]
        need == Utf8Need(b0)
        r2 == Utf8Second(b0)
        bad(n) == [cp |-> 65533, used |-> n]
    IN IF need = 1 THEN [cp |-> b0, used |-> 1]
       ELSE IF need = 0 THEN bad(1)
       ELSE IF ~IsCont(Drop(b, 1), r2[1], r2[2]) THEN bad(1)
       ELSE IF need = 2 THEN [cp |-> (b0 - 192) * 64 + (b[2] - 128), used |-> 2]
       ELSE IF ~IsCont(Drop(b, 2), 128, 191) THEN bad(2)
       ELSE IF need = 3
            THEN [cp |-> (b0 - 224) * 4096 + (b[2] - 128) * 64 + (b[3] - 128), used |-> 3]
       ELSE IF ~IsCont(Drop(b, 3), 128, 191) THEN bad(3)
       ELSE [cp |-> (b0 - 240) * 262144 + (b[2] - 128) * 4096
                    + (b[3] - 128) * 64 + (b[4] - 128),
             used |-> 4]

RECURSIVE from_utf8_lossy(_)
from_utf8_lossy(b) ==
    IF b = <<>> THEN <<>>
    ELSE LET c == Utf8Chunk(b) IN <<c.cp>> \o from_utf8_lossy(Drop(b, c.used))

(***************************************************************************)
(* Promise (the Sink): created Pending; resolve_native, reject_native and  *)
(* reject_error settle it.  A promise is a single-assignment cell: the     *)
(* first settlement fixes state and payload; `settled` counts the          *)
(* settlement calls made on it.                                            *)
(***************************************************************************)
PromiseNew == [state |-> "Pending", payload |-> NoPayload, settled |-> 0]

Settle(p, st, payload) ==
    IF p.state = "Pending"
    THEN [state |-> st, payload |-> payload, settled |-> p.settled + 1]
    ELSE [p EXCEPT !.settled = @ + 1]

resolve_native(p, variant, val) == Settle(p, "Resolved", [tag |-> variant, val |-> val])

reject_native(p, e) == Settle(p, "Rejected", [tag |-> "native", val |-> e])

reject_error(p, err) == Settle(p, "Rejected", [tag |-> "error", err |-> err])

\* Error::Type(message) and Error::JSFailed
ErrorType(msg) == [type |-> "Type", msg |-> msg]

ErrorJSFailed == [type |-> "JSFailed", msg |-> ""]

DisturbedMsg == "The response's stream is disturbed or locked"

MimeMsg == "Inappropriate MIME-type for Body"

(***************************************************************************)
(* The script runtime behind cx.  pending is the pending exception         *)
(* (NoException when none is pending), objs counts the objects the runtime *)
(* has allocated, so that every exception object is a fresh one.           *)
(***************************************************************************)
NoException == [tag |-> "none", id |-> 0]

UndefinedValue == [tag |-> "undefined", id |-> 0]

CxNew == [pending |-> NoException, objs |-> 0]

IsWs(c) == c \in {32, 9, 10, 13}

RECURSIVE TrimLeft(_)
TrimLeft(s) == IF s # <<>> /\ IsWs(s[1]) THEN TrimLeft(Tail(s)) ELSE s

RECURSIVE TrimRight(_)
TrimRight(s) ==
    IF s # <<>> /\ IsWs(s[Len(s)]) THEN TrimRight(SubSeq(s, 1, Len(s) - 1)) ELSE s

IsJsonNumber(s) ==
    /\ Len(s) >= 1
    /\ \A i \in 1..Len(s) : s[i] >= 48 /\ s[i] <= 57
    /\ (Len(s) = 1 \/ s[1] # 48)

IsJsonEmpty(s, open, close) ==
    /\ Len(s) >= 2
    /\ s[1] = open
    /\ s[Len(s)] = close
    /\ \A i \in 2..(Len(s) - 1) : IsWs(s[i])

\* The JSON grammar, exact on texts made of digits, braces, brackets, white
\* space and characters that occur in no JSON token: numbers without sign,
\* fraction or exponent, {} and [].
JsonValue(chars) ==
    LET t == TrimRight(TrimLeft(chars))
    IN IF IsJsonNumber(t) THEN [tag |-> "number", digits |-> t]
       ELSE IF IsJsonEmpty(t, 123, 125) THEN [tag |-> "object", digits |-> <<>>]
       ELSE IF IsJsonEmpty(t, 91, 93) THEN [tag |-> "array", digits |-> <<>>]
       ELSE [tag |-> "invalid", digits |-> <<>>]

\* JS_ParseJSON(cx, chars, len, rval): on a syntax error it returns false and
\* leaves a fresh SyntaxError object pending on cx.
JS_ParseJSON(c, chars) ==
    LET v == JsonValue(chars)
    IN IF v.tag = "invalid"
       THEN [ok |-> FALSE, rval |-> v,
             cx |-> [pending |-> [tag |-> "SyntaxError", id |-> c.objs + 1],
                     objs |-> c.objs + 1]]
       ELSE [ok |-> TRUE, rval |-> v, cx |-> c]

\* JS_GetPendingException(cx, vp): false, vp untouched, when none is pending
JS_GetPendingException(c, vp) ==
    IF c.pending = NoException THEN [ok |-> FALSE, val |-> vp]
    ELSE [ok |-> TRUE, val |-> c.pending]

JS_ClearPendingException(c) == [c EXCEPT !.pending = NoException]

\* str::encode_utf16
RECURSIVE encode_utf16(_)
encode_utf16(s) ==
    IF s = <<>> THEN <<>>
    ELSE (IF s[1] < 65536 THEN <<s[1]>>
          ELSE <<55296 + ((s[1] - 65536) \div 1024), 56320 + ((s[1] - 65536) % 1024)>>)
         \o encode_utf16(Tail(s))

(***************************************************************************)
(* Fallible<FetchedData>: Ok(variant(val)) or Err(err).  A decoder returns *)
(* [res, cx, formdata]: its result, the runtime as it leaves it, and the   *)
(* FormData objects it created (each one the list of its entries).         *)
(***************************************************************************)
Ok(variant, val) == [ok |-> TRUE, variant |-> variant, val |-> val]

Err(err) == [ok |-> FALSE, err |-> err]

Ret(res, c, formdata) == [res |-> res, cx |-> c, formdata |-> formdata]

\* mutant: strict String::from_utf8, an error on bytes that are not UTF-8
run_text_data_algorithm_Strict(c, bytes) ==
    IF \E i \in 1..Len(from_utf8_lossy(bytes)) : from_utf8_lossy(bytes)[i] = 65533
    THEN Ret(Err(ErrorType(MimeMsg)), c, <<>>)
    ELSE Ret(Ok("Text", from_utf8_lossy(bytes)), c, <<>>)

run_text_data_algorithm(c, bytes) ==
    Ret(Ok("Text", from_utf8_lossy(bytes)), c, <<>>)

\* mutant: the pending exception is read but not cleared
run_json_data_algorithm_NoClear(c, bytes) ==
    LET json_text == encode_utf16(from_utf8_lossy(bytes))
        parsed == JS_ParseJSON(c, json_text)
        exception == JS_GetPendingException(parsed.cx, UndefinedValue)
    IN IF ~parsed.ok
       THEN Ret(Ok("JSException", exception.val), parsed.cx, <<>>)
       ELSE Ret(Ok("Json", parsed.rval), parsed.cx, <<>>)

run_json_data_algorithm(c, bytes) ==
    LET json_text == encode_utf16(from_utf8_lossy(bytes))
        parsed == JS_ParseJSON(c, json_text)
        exception == JS_GetPendingException(parsed.cx, UndefinedValue)
        cleared == JS_ClearPendingException(parsed.cx)
    IN IF ~parsed.ok
       THEN Ret(Ok("JSException", exception.val), cleared, <<>>)
       ELSE Ret(Ok("Json", parsed.rval), parsed.cx, <<>>)

\* String::from_utf8 / str::from_utf8 of a declared content type
InvalidByte == "<FF>"

mime_from_utf8(mime) ==
    IF \E i \in 1..Len(mime) : mime[i] = InvalidByte
    THEN [ok |-> FALSE, s |-> <<>>]
    ELSE [ok |-> TRUE, s |-> mime]

\* Blob::new(root, BlobImpl::new_from_bytes(bytes), type_string)
BlobNew(bytes, type_string) == [bytes |-> bytes, type |-> type_string]

\* mutant: a content type that is not UTF-8 is an error instead of ""
run_blob_data_algorithm_Strict(c, bytes, mime) ==
    LET u == mime_from_utf8(mime)
    IN IF u.ok THEN Ret(Ok("BlobData", BlobNew(bytes, u.s)), c, <<>>)
       ELSE Ret(Err(ErrorType(MimeMsg)), c, <<>>)

run_blob_data_algorithm(c, bytes, mime) ==
    LET u == mime_from_utf8(mime)
        mime_string == IF u.ok THEN u.s ELSE <<>>
    IN Ret(Ok("BlobData", BlobNew(bytes, mime_string)), c, <<>>)

(***************************************************************************)
(* Mime::from_str on the lexemes of a content type: type "/" subtype, then *)
(* any number of ";" [space] parameter.  Names compare case-insensitively  *)
(* (the parsed type and subtype are lower case).                           *)
(***************************************************************************)
NameLexemes ==
    {"application", "APPLICATION", "multipart", "text",
     "x-www-form-urlencoded", "form-data", "plain"}

ParamLexemes == {"boundary=x", "boundary=y", "charset=utf-8"}

Lower(n) == IF n = "APPLICATION" THEN "application" ELSE n

RECURSIVE ParamsOk(_)
ParamsOk(rest) ==
    \/ rest = <<>>
    \/ /\ Len(rest) >= 2
       /\ rest[1] = ";"
       /\ LET r == IF rest[2] = " " THEN Drop(rest, 2) ELSE Drop(rest, 1)
          IN r # <<>> /\ r[1] \in ParamLexemes /\ ParamsOk(Tail(r))

MimeParse(s) ==
    IF /\ Len(s) >= 3
       /\ s[1] \in NameLexemes
       /\ s[2] = "/"
       /\ s[3] \in NameLexemes
       /\ ParamsOk(Drop(s, 3))
    THEN [ok |-> TRUE, type_ |-> Lower(s[1]), subtype |-> Lower(s[3])]
    ELSE [ok |-> FALSE, type_ |-> "", subtype |-> ""]

(***************************************************************************)
(* form_urlencoded::parse: the pieces between "&" (38), empty pieces       *)
(* skipped; each piece is split at its first "=" (61); name and value are  *)
(* decoded on their own: "+" (43) to space, %XX to the byte XX, then lossy *)
(* UTF-8.                                                                  *)
(***************************************************************************)
RECURSIVE SplitOn(_, _)
SplitOn(bytes, sep) ==
    LET i == IndexOf(bytes, sep, 1)
    IN IF i = 0 THEN <<bytes>>
       ELSE <<SubSeq(bytes, 1, i - 1)>> \o SplitOn(Drop(bytes, i), sep)

IsHex(b) == (b >= 48 /\ b <= 57) \/ (b >= 65 /\ b <= 70) \/ (b >= 97 /\ b <= 102)

HexVal(b) == IF b <= 57 THEN b - 48 ELSE IF b <= 70 THEN b - 55 ELSE b - 87

RECURSIVE percent_decode(_)
percent_decode(b) ==
    IF b = <<>> THEN <<>>
    ELSE IF b[1] = 37 /\ Len(b) >= 3 /\ IsHex(b[2]) /\ IsHex(b[3])
         THEN <<16 * HexVal(b[2]) + HexVal(b[3])>> \o percent_decode(Drop(b, 3))
    ELSE <<b[1]>> \o percent_decode(Tail(b))

replace_plus(b) == [i \in 1..Len(b) |-> IF b[i] = 43 THEN 32 ELSE b[i]]

form_decode(b) == from_utf8_lossy(percent_decode(replace_plus(b)))

ParsePiece(piece) ==
    LET i == IndexOf(piece, 61, 1)
        name == IF i = 0 THEN piece ELSE SubSeq(piece, 1, i - 1)
        value == IF i = 0 THEN <<>> ELSE Drop(piece, i)
    IN <<form_decode(name), form_decode(value)>>

RECURSIVE ParsePieces(_)
ParsePieces(pieces) ==
    IF pieces = <<>> THEN <<>>
    ELSE IF Head(pieces) = <<>> THEN ParsePieces(Tail(pieces))
    ELSE <<ParsePiece(Head(pieces))>> \o ParsePieces(Tail(pieces))

form_urlencoded_parse(bytes) == ParsePieces(SplitOn(bytes, 38))

\* FormData::new(None, root) and FormData::Append(name, value)
FormDataNew == <<>>

FormDataAppend(formdata, name, value) == Append(formdata, <<name, value>>)

\* mutant: an entry whose name is already in the list replaces that entry
RECURSIVE AppendEntries_Overwrite(_, _)
AppendEntries_Overwrite(formdata, entries) ==
    IF entries = <<>> THEN formdata
    ELSE LET e == Head(entries)
             at == {i \in 1..Len(formdata) : formdata[i][1] = e[1]}
         IN AppendEntries_Overwrite(
                IF at = {} THEN FormDataAppend(formdata, e[1], e[2])
                ELSE [i \in 1..Len(formdata) |-> IF i \in at THEN e ELSE formdata[i]],
                Tail(entries))

\* for (k, e) in entries { formdata.Append(k, e) }
RECURSIVE AppendEntries(_, _)
AppendEntries(formdata, entries) ==
    IF entries = <<>> THEN formdata
    ELSE AppendEntries(FormDataAppend(formdata, Head(entries)[1], Head(entries)[2]),
                       Tail(entries))

\* mutant: multipart/form-data is let through to the urlencoded parser
run_form_data_algorithm_AcceptMultipart(c, bytes, mime) ==
    LET u == mime_from_utf8(mime)
        mime_str == IF u.ok THEN u.s ELSE <<>>
        m == MimeParse(mime_str)
    IN IF ~m.ok THEN Ret(Err(ErrorType(MimeMsg)), c, <<>>)
       ELSE IF \/ m.type_ = "application" /\ m.subtype = "x-www-form-urlencoded"
               \/ m.type_ = "multipart" /\ m.subtype = "form-data"
            THEN LET formdata == AppendEntries(FormDataNew, form_urlencoded_parse(bytes))
                 IN Ret(Ok("FormData", formdata), c, <<formdata>>)
       ELSE Ret(Err(ErrorType(MimeMsg)), c, <<>>)

run_form_data_algorithm(c, bytes, mime) ==
    LET u == mime_from_utf8(mime)
        mime_str == IF u.ok THEN u.s ELSE <<>>
        m == MimeParse(mime_str)
    IN IF ~m.ok THEN Ret(Err(ErrorType(MimeMsg)), c, <<>>)
       ELSE IF m.type_ = "application" /\ m.subtype = "x-www-form-urlencoded"
            THEN LET formdata == AppendEntries(FormDataNew, form_urlencoded_parse(bytes))
                 IN Ret(Ok("FormData", formdata), c, <<formdata>>)
       ELSE Ret(Err(ErrorType(MimeMsg)), c, <<>>)

\* mutant: the allocation failure is reported as the form decoder's TypeError
run_array_buffer_data_algorithm_TypeError(c, bytes, created) ==
    IF ~created THEN Ret(Err(ErrorType(MimeMsg)), c, <<>>)
    ELSE Ret(Ok("ArrayBuffer", bytes), [c EXCEPT !.objs = @ + 1], <<>>)

\* mutant: a failed allocation is reported as a runtime exception
run_array_buffer_data_algorithm_AsException(c, bytes, created) ==
    IF ~created THEN Ret(Ok("JSException", UndefinedValue), c, <<>>)
    ELSE Ret(Ok("ArrayBuffer", bytes), [c EXCEPT !.objs = @ + 1], <<>>)

\* ArrayBuffer::create(cx, CreateWith::Slice(&bytes), ..): created says
\* whether the runtime could allocate the buffer and copy the bytes in
run_array_buffer_data_algorithm(c, bytes, created) ==
    IF ~created THEN Ret(Err(ErrorJSFailed), c, <<>>)
    ELSE Ret(Ok("ArrayBuffer", bytes), [c EXCEPT !.objs = @ + 1], <<>>)

\* mutant: the Blob arm dispatches to the text decoder
run_package_data_algorithm_TextForBlob(c, bytes, body_type, mime, created) ==
    CASE body_type = "Text" -> run_text_data_algorithm(c, bytes)
      [] body_type = "Json" -> run_json_data_algorithm(c, bytes)
      [] body_type = "Blob" -> run_text_data_algorithm(c, bytes)
      [] body_type = "FormData" -> run_form_data_algorithm(c, bytes, mime)
      [] body_type = "ArrayBuffer" -> run_array_buffer_data_algorithm(c, bytes, created)

run_package_data_algorithm(c, bytes, body_type, mime, created) ==
    CASE body_type = "Text" -> run_text_data_algorithm(c, bytes)
      [] body_type = "Json" -> run_json_data_algorithm(c, bytes)
      [] body_type = "Blob" -> run_blob_data_algorithm(c, bytes, mime)
      [] body_type = "FormData" -> run_form_data_algorithm(c, bytes, mime)
      [] body_type = "ArrayBuffer" -> run_array_buffer_data_algorithm(c, bytes, created)

(***************************************************************************)
(* The Source's side of BodyOperations.  take_body hands the buffer over   *)
(* once it is complete and leaves none behind; set_body_promise marks the  *)
(* body used and records the promise and kind in flight.                   *)
(***************************************************************************)
take_body(b) ==
    IF b.st = "Done"
    THEN [some |-> TRUE, bytes |-> b.bytes, body |-> [st |-> "Taken", bytes |-> <<>>]]
    ELSE [some |-> FALSE, bytes |-> <<>>, body |-> b]

\* one call an operation makes on a collaborator: which, for which promise,
\* with which kind
Call(c, p, body_type) == [call |-> c, sink |-> p, kind |-> body_type]

set_body_promise(w, p, body_type) ==
    [w EXCEPT !.body_used = TRUE,
              !.body_promise = [sink |-> p, kind |-> body_type],
              !.calls = Append(@, Call("set_body_promise", p, body_type))]

\* The state the operations of body.rs read and write, as one record; took
\* says whether the call's take_body returned Some, calls lists the calls the
\* operation has made so far, in order.
World ==
    [body |-> body, body_used |-> body_used, body_promise |-> body_promise,
     sinks |-> sinks, cx |-> cx, decodes |-> decodes, took |-> FALSE,
     calls |-> <<>>]

\* mutant: the JSException arm resolves like the other arms
AdaptResult_ResolveException(p, res) ==
    IF res.ok THEN resolve_native(p, res.variant, res.val) ELSE reject_error(p, res.err)

\* match pkg_data_results { Ok(results) => match results {..}, Err(err) => .. }
AdaptResult(p, res) ==
    IF res.ok
    THEN IF res.variant = "JSException"
         THEN reject_native(p, res.val)
         ELSE resolve_native(p, res.variant, res.val)
    ELSE reject_error(p, res.err)

\* mutant: the decoder's result is dropped, the promise is never settled
PackageAndSettle_DropResult(w, t, body_type, p, created) ==
    LET r == run_package_data_algorithm(w.cx, t.bytes, body_type, mime_type, created)
    IN [w EXCEPT !.body = t.body, !.took = t.some, !.cx = r.cx]

\* what the runtime's allocation did during a decode: only the ArrayBuffer
\* decoder asks for one
Alloc(body_type, created) ==
    IF body_type # "ArrayBuffer" THEN "none" ELSE IF created THEN "ok" ELSE "failed"

\* the buffer t was taken: package it and settle the promise
PackageAndSettle(w, t, body_type, p, created) ==
    LET r == run_package_data_algorithm(w.cx, t.bytes, body_type, mime_type, created)
    IN [w EXCEPT !.body = t.body,
                 !.took = t.some,
                 !.cx = r.cx,
                 !.decodes = Append(@, [sink |-> p, kind |-> body_type,
                                        bytes |-> t.bytes, res |-> r.res,
                                        formdata |-> r.formdata,
                                        alloc |-> Alloc(body_type, created)]),
                 !.sinks[p] = AdaptResult(@, r.res),
                 !.calls = @ \o <<Call("run_package_data_algorithm", p, body_type),
                                  Call("settle", p, body_type)>>]

\* mutant: None is taken for an empty body instead of returning
consume_body_with_promise_NoneAsEmpty(w, body_type, p, created) ==
    PackageAndSettle(w, take_body(w.body), body_type, p, created)

\* mutant: None rejects the promise instead of leaving it alone
consume_body_with_promise_RejectNotReady(w, body_type, p, created) ==
    LET t == take_body(w.body)
    IN IF ~t.some THEN [w EXCEPT !.sinks[p] = reject_error(@, ErrorJSFailed)]
       ELSE PackageAndSettle(w, t, body_type, p, created)

consume_body_with_promise(w, body_type, p, created) ==
    LET t == take_body(w.body)
        called == [w EXCEPT !.calls = Append(@, Call("take_body", p, body_type))]
    IN IF ~t.some THEN called ELSE PackageAndSettle(called, t, body_type, p, created)

\* mutant: Step 1 forgets the used flag
Guard_LockedOnly(w) == locked

\* Step 1 of consume_body
Guard(w) == w.body_used \/ locked

\* mutant: the promise is registered before Step 1 is checked
consume_body_RegisterFirst(w, body_type, created) ==
    LET p == Len(w.sinks) + 1
        fresh == set_body_promise([w EXCEPT !.sinks = Append(@, PromiseNew)], p, body_type)
    IN IF Guard(w)
       THEN [fresh EXCEPT !.sinks[p] = reject_error(@, ErrorType(DisturbedMsg))]
       ELSE consume_body_with_promise(fresh, body_type, p, created)

\* mutant: the promise is registered but the driver is not called
consume_body_NoDrive(w, body_type, created) ==
    LET p == Len(w.sinks) + 1
        fresh == [w EXCEPT !.sinks = Append(@, PromiseNew)]
    IN IF Guard(w)
       THEN [fresh EXCEPT !.sinks[p] = reject_error(@, ErrorType(DisturbedMsg))]
       ELSE set_body_promise(fresh, p, body_type)

\* mutant: the driver runs first, the promise is registered afterwards
consume_body_RegisterAfter(w, body_type, created) ==
    LET p == Len(w.sinks) + 1
        fresh == [w EXCEPT !.sinks = Append(@, PromiseNew)]
    IN IF Guard(w)
       THEN [fresh EXCEPT !.sinks[p] = reject_error(@, ErrorType(DisturbedMsg)),
                          !.calls = Append(@, Call("settle", p, body_type))]
       ELSE set_body_promise(consume_body_with_promise(fresh, body_type, p, created),
                             p, body_type)

consume_body(w, body_type, created) ==
    LET p == Len(w.sinks) + 1
        fresh == [w EXCEPT !.sinks = Append(@, PromiseNew)]
    IN IF Guard(w)
       THEN [fresh EXCEPT !.sinks[p] = reject_error(@, ErrorType(DisturbedMsg)),
                          !.calls = Append(@, Call("settle", p, body_type))]
       ELSE consume_body_with_promise(set_body_promise(fresh, p, body_type),
                                      body_type, p, created)

(***************************************************************************)
(* The inputs the model draws.                                             *)
(***************************************************************************)
FormUrlencoded == <<"application", "/", "x-www-form-urlencoded">>

Mimes ==
    {FormUrlencoded,
     <<"multipart", "/", "form-data", ";", "boundary=x">>,
     <<"text", "/", "plain">>,
     <<InvalidByte>>}

\* "", "{}", "{", "a=2" and a byte that is not UTF-8
Bodies == {<<>>, <<123, 125>>, <<123>>, <<97, 61, 50>>, <<255>>}

(***************************************************************************)
(* The state machine.                                                      *)
(***************************************************************************)
Init ==
    /\ body = [st |-> "NotYet", bytes |-> <<>>]
    /\ body_used = FALSE
    /\ locked \in BOOLEAN
    /\ mime_type \in Mimes
    /\ body_promise = NoPromise
    /\ sinks = <<>>
    /\ cx = CxNew
    /\ decodes = <<>>
    /\ accepted = {}
    /\ last = [op |-> "init", sink |-> 0, kind |-> "none", accepted |-> FALSE,
               took |-> FALSE, calls |-> <<>>]

Commit(w) ==
    /\ body' = w.body
    /\ body_used' = w.body_used
    /\ body_promise' = w.body_promise
    /\ sinks' = w.sinks
    /\ cx' = w.cx
    /\ decodes' = w.decodes

\* a caller asks for the body as body_type
ConsumeBody(body_type, created) ==
    /\ Len(sinks) < MaxSinks
    /\ LET w == consume_body(World, body_type, created)
       IN /\ Commit(w)
          /\ last' = [op |-> "consume_body", sink |-> Len(sinks) + 1, kind |-> body_type,
                      accepted |-> ~Guard(World), took |-> w.took,
                      calls |-> w.calls]
    /\ accepted' = IF Guard(World) THEN accepted ELSE accepted \cup {Len(sinks) + 1}
    /\ UNCHANGED <<locked, mime_type>>

\* the Source re-invokes the driver for the promise and kind it has registered
Drive(created) ==
    /\ body_promise # NoPromise
    /\ LET w == consume_body_with_promise(World, body_promise.kind, body_promise.sink,
                                          created)
       IN /\ Commit(w)
          /\ last' = [op |-> "drive", sink |-> body_promise.sink,
                      kind |-> body_promise.kind, accepted |-> FALSE, took |-> w.took,
                      calls |-> w.calls]
    /\ UNCHANGED <<locked, mime_type, accepted>>

\* the transport completes the body with bytes; the Source then re-invokes
\* the driver if a consumption is in flight
Finish(bytes, created) ==
    /\ body.st = "NotYet"
    /\ LET done == [World EXCEPT !.body = [st |-> "Done", bytes |-> bytes]]
           w == IF body_promise = NoPromise THEN done
                ELSE consume_body_with_promise(done, body_promise.kind,
                                               body_promise.sink, created)
       IN /\ Commit(w)
          /\ last' = [op |-> "finish", sink |-> body_promise.sink,
                      kind |-> body_promise.kind, accepted |-> FALSE, took |-> w.took,
                      calls |-> w.calls]
    /\ UNCHANGED <<locked, mime_type, accepted>>

\* an external reader takes or releases the lock on the body
SetLocked ==
    /\ locked' = ~locked
    /\ last' = [last EXCEPT !.op = "lock", !.calls = <<>>]
    /\ UNCHANGED <<body, body_used, mime_type, body_promise, sinks, cx, decodes, accepted>>

Next ==
    \/ \E k \in BodyType, created \in BOOLEAN : ConsumeBody(k, created)
    \/ \E created \in BOOLEAN : Drive(created)
    \/ \E bytes \in Bodies, created \in BOOLEAN : Finish(bytes, created)
    \/ SetLocked

Spec == Init /\ [][Next]_vars

(***************************************************************************)
(* run_json_data_algorithm applied to one runtime, parse after parse.      *)
(***************************************************************************)
\* Bodies, and "20", "02", " { }"
JsonBodies == Bodies \cup {<<50, 48>>, <<48, 50>>, <<32, 123, 32, 125>>}

RunJson(bytes) ==
    /\ Len(decodes) < MaxParses
    /\ LET r == run_json_data_algorithm(cx, bytes)
       IN /\ cx' = r.cx
          /\ decodes' = Append(decodes, [sink |-> 0, kind |-> "Json", bytes |-> bytes,
                                         res |-> r.res, formdata |-> r.formdata,
                                         alloc |-> Alloc("Json", TRUE)])
    /\ last' = [op |-> "run_json", sink |-> 0, kind |-> "Json", accepted |-> FALSE,
                took |-> TRUE, calls |-> <<>>]
    /\ UNCHANGED <<body, body_used, locked, mime_type, body_promise, sinks, accepted>>

NextJson == \E bytes \in JsonBodies : RunJson(bytes)

SpecJson == Init /\ [][NextJson]_vars

(***************************************************************************)
(* The form decoder on many content types and many bodies: one             *)
(* consume_body call for FormData, before or after the body completes.     *)
(***************************************************************************)
TypeNames == {"application", "APPLICATION", "multipart", "text"}

SubtypeNames == {"x-www-form-urlencoded", "form-data", "plain"}

Essences == {<<t, "/", u>> : t \in TypeNames, u \in SubtypeNames}

OneParam == {<<";", q>> : q \in ParamLexemes} \cup {<<";", " ", q>> : q \in ParamLexemes}

RECURSIVE ParamSeqs(_)
ParamSeqs(n) ==
    IF n = 0 THEN {<<>>}
    ELSE ParamSeqs(n - 1) \cup {ps \o q : ps \in ParamSeqs(n - 1), q \in OneParam}

WellFormedMimes == {e \o ps : e \in Essences, ps \in ParamSeqs(MaxParams)}

MalformedMimes ==
    {<<>>, <<"text">>, <<"application", "/">>, <<"/", "x-www-form-urlencoded">>,
     <<"application", "x-www-form-urlencoded">>, <<"application", ";", "charset=utf-8">>}

NotUtf8Mimes ==
    {<<InvalidByte>>} \cup {Append(e, InvalidByte) : e \in Essences}
                     \cup {<<InvalidByte>> \o e : e \in Essences}

FormMimes == WellFormedMimes \cup MalformedMimes \cup NotUtf8Mimes

\* a, =, &, +, %, 2
FormAlphabet == {97, 61, 38, 43, 37, 50}

FormBodies == SeqsUpTo(FormAlphabet, MaxBodyLen)

InitForm ==
    /\ body = [st |-> "NotYet", bytes |-> <<>>]
    /\ body_used = FALSE
    /\ locked = FALSE
    /\ mime_type \in FormMimes
    /\ body_promise = NoPromise
    /\ sinks = <<>>
    /\ cx = CxNew
    /\ decodes = <<>>
    /\ accepted = {}
    /\ last = [op |-> "init", sink |-> 0, kind |-> "none", accepted |-> FALSE,
               took |-> FALSE, calls |-> <<>>]

ConsumeFormData == sinks = <<>> /\ ConsumeBody("FormData", TRUE)

FinishForm ==
    /\ body.st = "NotYet"
    /\ \E bytes \in (IF mime_type = FormUrlencoded THEN FormBodies ELSE Bodies) :
          Finish(bytes, TRUE)

NextForm == ConsumeFormData \/ FinishForm

SpecForm == InitForm /\ [][NextForm]_vars

(***************************************************************************)
(* Every decoder on many bodies and many content types: one consume_body   *)
(* call of any kind, before or after the body completes.                   *)
(***************************************************************************)
\* 2, {, }, a, the two bytes of U+00A9 (194 169), and 255
DecodeAlphabet == {50, 123, 125, 97, 194, 169, 255}

DecodeBodies == SeqsUpTo(DecodeAlphabet, MaxBytesLen)

ConsumeOnce ==
    /\ sinks = <<>>
    /\ \E k \in BodyType, created \in BOOLEAN : ConsumeBody(k, created)

FinishDecode ==
    /\ body.st = "NotYet"
    /\ \E bytes \in (IF mime_type \in Mimes THEN DecodeBodies ELSE Bodies),
          created \in BOOLEAN :
          Finish(bytes, created)

NextDecode == ConsumeOnce \/ FinishDecode

SpecDecode == InitForm /\ [][NextDecode]_vars

\* the transport completes every body it has started to deliver
FairSpec == Spec /\ WF_vars(\E bytes \in Bodies, created \in BOOLEAN : Finish(bytes, created))

(***************************************************************************)
(* C1: at most once.  A consume_body call made after an earlier call on    *)
(* the same Source passed Step 1 returns a promise that is already         *)
(* Rejected with the disturbed-or-locked TypeError, and is not itself      *)
(* accepted, whatever the state of the first call's promise.               *)
(***************************************************************************)
IsDisturbed(p) ==
    /\ p.state = "Rejected"
    /\ p.payload.tag = "error"
    /\ p.payload.err = ErrorType(DisturbedMsg)

C1_AtMostOnce ==
    (last.op = "consume_body" /\ \E i \in accepted : i < last.sink)
        => (IsDisturbed(sinks[last.sink]) /\ last.sink \notin accepted)

C1_Witness ==
    /\ last.op = "consume_body"
    /\ \E i \in accepted : i < last.sink /\ sinks[i].state = "Pending"
    /\ IsDisturbed(sinks[last.sink])

(***************************************************************************)
(* C2: a consume_body call that finds the body used or locked returns a    *)
(* promise already Rejected with the disturbed-or-locked TypeError and     *)
(* leaves the buffer, the used flag, the registered promise and kind, the  *)
(* runtime and the decode history as they were.                            *)
(***************************************************************************)
C2_GuardRejectionFrame ==
    [][\A k \in BodyType, created \in BOOLEAN :
          (Guard(World) /\ ConsumeBody(k, created))
              => /\ Len(sinks') = Len(sinks) + 1
                 /\ IsDisturbed(sinks'[Len(sinks')])
                 /\ SubSeq(sinks', 1, Len(sinks)) = sinks
                 /\ UNCHANGED <<body, body_used, body_promise, cx, decodes>>]_vars

C2_Witness ==
    /\ last.op = "consume_body"
    /\ ~last.accepted
    /\ IsDisturbed(sinks[last.sink])
    /\ body.st = "Done"
    /\ decodes = <<>>

(***************************************************************************)
(* C3: single assignment.  A promise that has left Pending is never        *)
(* touched again: its state, its payload and the number of settlements     *)
(* made on it (one) stay as they are at every later step.                  *)
(***************************************************************************)
C3_SingleAssignment ==
    [][\A i \in 1..Len(sinks) :
          sinks[i].state # "Pending"
              => /\ sinks'[i].state = sinks[i].state
                 /\ sinks'[i].payload = sinks[i].payload
                 /\ sinks'[i].settled = 1]_vars

C3_Witness ==
    /\ last.op = "drive"
    /\ sinks[last.sink].state = "Resolved"
    /\ sinks[last.sink].settled = 1
    /\ \E i \in 1..Len(sinks) : IsDisturbed(sinks[i])

(***************************************************************************)
(* C4: a driver call whose take_body returns None changes nothing: the     *)
(* promises, the used flag, the registered promise and kind, the buffer,   *)
(* the runtime and the decode history are unchanged, and while the body is *)
(* not complete the registered promise is Pending before and after.        *)
(***************************************************************************)
C4_NotReadyIdempotent ==
    [][\A created \in BOOLEAN :
          (Drive(created) /\ ~take_body(body).some)
              => /\ UNCHANGED <<sinks, body, body_used, body_promise, cx, decodes>>
                 /\ (body.st = "NotYet"
                        => sinks'[body_promise.sink].state = "Pending")]_vars

C4_Witness ==
    /\ last.op = "drive"
    /\ ~last.took
    /\ body.st = "NotYet"
    /\ sinks[body_promise.sink].state = "Pending"
    /\ decodes = <<>>

(***************************************************************************)
(* C5: eventual settlement.  If the transport completes the body (and the  *)
(* Source then re-invokes the driver), every promise whose consume_body    *)
(* call passed Step 1 is eventually Resolved or Rejected; a promise is     *)
(* never in any state but Pending, Resolved and Rejected.                  *)
(***************************************************************************)
IsSettled(i) == i \in 1..Len(sinks) /\ sinks[i].state \in {"Resolved", "Rejected"}

C5_EventualSettlement ==
    /\ [](\A i \in 1..Len(sinks) : sinks[i].state \in {"Pending", "Resolved", "Rejected"})
    /\ (accepted # {}) ~> (accepted # {} /\ \A i \in accepted : IsSettled(i))

C5_Witness ==
    /\ last.op = "finish"
    /\ last.took
    /\ last.sink \in accepted
    /\ IsSettled(last.sink)

(***************************************************************************)
(* C6: outcome adaptation.  For every buffer the driver took, the promise  *)
(* it drove is settled by the decoder's result alone: an Err(e) rejects it *)
(* with the error e, Ok(JSException(v)) rejects it with the runtime value  *)
(* v, and each of the five other variants resolves it with its payload.    *)
(***************************************************************************)
SuccessVariants == {"Text", "Json", "BlobData", "FormData", "ArrayBuffer"}

C6_OutcomeAdaptation ==
    \A n \in 1..Len(decodes) :
        LET d == decodes[n]
            p == sinks[d.sink]
        IN IF ~d.res.ok
           THEN p.state = "Rejected" /\ p.payload.tag = "error" /\ p.payload.err = d.res.err
           ELSE IF d.res.variant = "JSException"
                THEN /\ p.state = "Rejected"
                     /\ p.payload.tag = "native"
                     /\ p.payload.val = d.res.val
           ELSE /\ d.res.variant \in SuccessVariants
                /\ p.state = "Resolved"
                /\ p.payload.tag = d.res.variant
                /\ p.payload.val = d.res.val

C6_Witness ==
    \E n \in 1..Len(decodes) :
        /\ decodes[n].res.ok
        /\ decodes[n].res.variant = "JSException"
        /\ sinks[decodes[n].sink].state = "Rejected"
        /\ sinks[decodes[n].sink].payload.tag = "native"

(***************************************************************************)
(* C8: four distinguishable rejections.  The payload of a Rejected promise *)
(* alone tells its cause: Classify, a function of the payload, returns the *)
(* cause the history records (Step 1, the form decoder, the array-buffer   *)
(* decoder or the JSON decoder), and only the JSON decoder's rejection     *)
(* carries a runtime value.                                                *)
(***************************************************************************)
Classify(payload) ==
    IF payload.tag = "native" THEN "foreign exception"
    ELSE IF payload.tag # "error" THEN "unknown"
    ELSE IF payload.err = ErrorType(DisturbedMsg) THEN "disturbed or locked"
    ELSE IF payload.err = ErrorType(MimeMsg) THEN "unsupported content type"
    ELSE IF payload.err = ErrorJSFailed THEN "allocation failure"
    ELSE "unknown"

Cause(i) ==
    IF i \notin accepted THEN "disturbed or locked"
    ELSE IF \E n \in 1..Len(decodes) : decodes[n].sink = i /\ decodes[n].kind = "FormData"
         THEN "unsupported content type"
    ELSE IF \E n \in 1..Len(decodes) : decodes[n].sink = i /\ decodes[n].kind = "ArrayBuffer"
         THEN "allocation failure"
    ELSE IF \E n \in 1..Len(decodes) : decodes[n].sink = i /\ decodes[n].kind = "Json"
         THEN "foreign exception"
    ELSE "none"

C8_DistinctRejections ==
    \A i \in 1..Len(sinks) :
        sinks[i].state = "Rejected"
            => /\ Cause(i) # "none"
               /\ Classify(sinks[i].payload) = Cause(i)
               /\ (sinks[i].payload.tag = "native") = (Cause(i) = "foreign exception")

C8_Witness ==
    \E i, j \in 1..Len(sinks) :
        /\ sinks[i].state = "Rejected"
        /\ sinks[j].state = "Rejected"
        /\ Cause(i) = "allocation failure"
        /\ Cause(j) = "disturbed or locked"

(***************************************************************************)
(* C7: the runtime's failure flag is cleared.  After every return of       *)
(* run_json_data_algorithm no exception is pending on the runtime; a parse *)
(* failure returns JSException carrying the exception object that this     *)
(* parse left pending (the runtime's newest object), and whether a parse   *)
(* succeeds depends on its own text only, not on the parses before it.     *)
(***************************************************************************)
Failures(n) == Cardinality({m \in 1..n : decodes[m].res.variant = "JSException"})

C7_FailureFlagCleared ==
    /\ cx.pending = NoException
    /\ \A n \in 1..Len(decodes) :
          LET d == decodes[n]
              valid == JsonValue(encode_utf16(from_utf8_lossy(d.bytes))).tag # "invalid"
          IN /\ d.res.ok
             /\ valid => d.res.variant = "Json"
             /\ ~valid => /\ d.res.variant = "JSException"
                          /\ d.res.val = [tag |-> "SyntaxError", id |-> Failures(n)]

C7_Witness ==
    /\ Len(decodes) >= 2
    /\ decodes[1].res.variant = "JSException"
    /\ decodes[1].res.val.tag = "SyntaxError"
    /\ decodes[2].res.variant = "Json"
    /\ cx.pending = NoException

(***************************************************************************)
(* C9: form rejection.  With kind FormData, a declared content type that   *)
(* is not valid UTF-8, does not parse as a MIME type, or whose type and    *)
(* subtype are not application/x-www-form-urlencoded (every                *)
(* multipart/form-data among them, whatever its parameters) rejects the    *)
(* promise with the TypeError "Inappropriate MIME-type for Body" and no    *)
(* FormData object is created; application/x-www-form-urlencoded resolves  *)
(* the promise with a FormData.                                            *)
(***************************************************************************)
IsUtf8(mime) == \A i \in 1..Len(mime) : mime[i] # InvalidByte

IsSupportedForm(mime) ==
    /\ IsUtf8(mime)
    /\ MimeParse(mime).ok
    /\ MimeParse(mime).type_ = "application"
    /\ MimeParse(mime).subtype = "x-www-form-urlencoded"

IsMultipartFormData(mime) ==
    Len(mime) >= 3 /\ mime[1] = "multipart" /\ mime[2] = "/" /\ mime[3] = "form-data"

IsMimeRejection(p) ==
    /\ p.state = "Rejected"
    /\ p.payload.tag = "error"
    /\ p.payload.err = ErrorType(MimeMsg)

C9_FormRejection ==
    \A n \in 1..Len(decodes) :
        LET d == decodes[n]
        IN d.kind = "FormData"
             => /\ IsSupportedForm(mime_type)
                    => /\ sinks[d.sink].state = "Resolved"
                       /\ sinks[d.sink].payload.tag = "FormData"
                /\ ~IsSupportedForm(mime_type)
                    => IsMimeRejection(sinks[d.sink]) /\ d.formdata = <<>>
                /\ IsMultipartFormData(mime_type) => IsMimeRejection(sinks[d.sink])

C9_Witness ==
    /\ mime_type = <<"multipart", "/", "form-data", ";", "boundary=y">>
    /\ Len(decodes) = 1
    /\ decodes[1].kind = "FormData"
    /\ decodes[1].bytes = <<97, 61, 50>>
    /\ IsMimeRejection(sinks[1])
    /\ decodes[1].formdata = <<>>

(***************************************************************************)
(* C10: form field order and duplicates.  For a body whose pieces between  *)
(* "&" are all key=value pairs, the resolved field list has one entry per  *)
(* piece, in the body's order, the key and the value each decoded on its   *)
(* own; and the serialization of any list of pairs (equal keys included)   *)
(* decodes back to that very list.                                         *)
(***************************************************************************)
\* the strings a field holds: over "a", space and the double quote
FieldStrings == SeqsUpTo({97, 32, 34}, 1)

PairLists == SeqsUpTo({<<k, v>> : k \in FieldStrings, v \in FieldStrings}, MaxPairs)

\* form_urlencoded serialization: space as "+", the quote as %22
RECURSIVE SerializeString(_)
SerializeString(str) ==
    IF str = <<>> THEN <<>>
    ELSE (IF str[1] = 32 THEN <<43>>
          ELSE IF str[1] = 34 THEN <<37, 50, 50>>
          ELSE <<str[1]>>) \o SerializeString(Tail(str))

RECURSIVE SerializePairs(_)
SerializePairs(pairs) ==
    IF pairs = <<>> THEN <<>>
    ELSE SerializeString(pairs[1][1]) \o <<61>> \o SerializeString(pairs[1][2])
         \o (IF Len(pairs) = 1 THEN <<>> ELSE <<38>> \o SerializePairs(Tail(pairs)))

Serialized ==
    {x \in {<<SerializePairs(l), l>> : l \in PairLists} : Len(x[1]) <= MaxBodyLen}

KeyOf(piece) == SubSeq(piece, 1, IndexOf(piece, 61, 1) - 1)

ValueOf(piece) == Drop(piece, IndexOf(piece, 61, 1))

C10_FormFieldOrder ==
    \A n \in 1..Len(decodes) :
        LET d == decodes[n]
            pieces == SplitOn(d.bytes, 38)
            fields == sinks[d.sink].payload.val
        IN (d.kind = "FormData" /\ IsSupportedForm(mime_type))
             => /\ sinks[d.sink].state = "Resolved"
                /\ sinks[d.sink].payload.tag = "FormData"
                /\ (\A i \in 1..Len(pieces) : IndexOf(pieces[i], 61, 1) # 0)
                     => /\ Len(fields) = Len(pieces)
                        /\ \A i \in 1..Len(pieces) :
                              fields[i] = <<form_decode(KeyOf(pieces[i])),
                                            form_decode(ValueOf(pieces[i]))>>
                /\ \A x \in Serialized : x[1] = d.bytes => fields = x[2]

\* "a=&a=" gives ("a", "") twice
C10_Witness ==
    /\ mime_type = FormUrlencoded
    /\ Len(decodes) = 1
    /\ decodes[1].bytes = <<97, 61, 38, 97, 61>>
    /\ sinks[1].state = "Resolved"
    /\ sinks[1].payload.val = <<<<<<97>>, <<>>>>, <<<<97>>, <<>>>>>>

(***************************************************************************)
(* C11: blob totality and fallback.  With kind Blob, a taken buffer always *)
(* resolves the promise with a blob, for every body and every declared     *)
(* content type; the blob holds the taken bytes unchanged, and its type is *)
(* the declared content type when that is valid UTF-8 and the empty string *)
(* when it is not.                                                         *)
(***************************************************************************)
C11_BlobTotality ==
    \A n \in 1..Len(decodes) :
        LET d == decodes[n]
            p == sinks[d.sink]
        IN d.kind = "Blob"
             => /\ p.state = "Resolved"
                /\ p.payload.tag = "BlobData"
                /\ p.payload.val.bytes = d.bytes
                /\ p.payload.val.type = (IF IsUtf8(mime_type) THEN mime_type ELSE <<>>)

C11_Witness ==
    /\ mime_type = <<"text", "/", "plain", InvalidByte>>
    /\ Len(decodes) = 1
    /\ decodes[1].kind = "Blob"
    /\ sinks[1].state = "Resolved"
    /\ sinks[1].payload.val = [bytes |-> <<255>>, type |-> <<>>]

(***************************************************************************)
(* C12: text totality.  With kind Text, a taken buffer always resolves the *)
(* promise with a string, whether or not the bytes are UTF-8: the lossy    *)
(* decoding of the bytes, a function of the bytes alone (the declared      *)
(* content type plays no part), made of Unicode scalar values only, no     *)
(* longer than the bytes and equal to them when they are all ASCII.        *)
(***************************************************************************)
IsScalarValue(cp) == (cp >= 0 /\ cp <= 55295) \/ (cp >= 57344 /\ cp <= 1114111)

C12_TextTotality ==
    \A n \in 1..Len(decodes) :
        LET d == decodes[n]
            p == sinks[d.sink]
        IN d.kind = "Text"
             => /\ p.state = "Resolved"
                /\ p.payload.tag = "Text"
                /\ p.payload.val = from_utf8_lossy(d.bytes)
                /\ \A i \in 1..Len(p.payload.val) : IsScalarValue(p.payload.val[i])
                /\ Len(p.payload.val) <= Len(d.bytes)
                /\ (\A i \in 1..Len(d.bytes) : d.bytes[i] < 128) => p.payload.val = d.bytes

C12_Witness ==
    /\ mime_type = <<InvalidByte>>
    /\ Len(decodes) = 1
    /\ decodes[1].kind = "Text"
    /\ decodes[1].bytes = <<194, 169, 255>>
    /\ sinks[1].state = "Resolved"
    /\ sinks[1].payload.val = <<169, 65533>>

(***************************************************************************)
(* C13: one take, one decode.  The decode history grows only by one entry, *)
(* only in a step that takes the buffer (take_body returned Some), and     *)
(* only from empty; every step that takes the buffer runs one decoder; a   *)
(* call whose take_body returned None runs none; once the buffer is taken  *)
(* it stays taken and no decoder runs again, whatever the decode returned. *)
(***************************************************************************)
C13_OneTakeOneDecode ==
    [][/\ Len(decodes') # Len(decodes)
            => /\ Len(decodes') = Len(decodes) + 1
               /\ decodes = <<>>
               /\ body.st # "Taken"
               /\ body'.st = "Taken"
               /\ last'.took
       /\ (body.st # "Taken" /\ body'.st = "Taken") => Len(decodes') = Len(decodes) + 1
       /\ (last'.op \in {"consume_body", "drive", "finish"} /\ ~last'.took)
            => Len(decodes') = Len(decodes)
       /\ body.st = "Taken" => (body'.st = "Taken" /\ Len(decodes') = Len(decodes))]_vars

C13_Witness ==
    /\ Len(decodes) = 1
    /\ ~decodes[1].res.ok
    /\ body.st = "Taken"
    /\ last.op = "drive"
    /\ ~last.took

(***************************************************************************)
(* C14: synchronous completion.  A consume_body call that passes Step 1    *)
(* while the buffer is complete returns a promise already Resolved or      *)
(* Rejected; the promise it returns is Pending exactly when take_body      *)
(* returned None during the call.                                          *)
(***************************************************************************)
C14_SynchronousCompletion ==
    [][\A k \in BodyType, created \in BOOLEAN :
          (ConsumeBody(k, created) /\ ~Guard(World))
              => /\ body.st = "Done"
                      => sinks'[Len(sinks')].state \in {"Resolved", "Rejected"}
                 /\ (sinks'[Len(sinks')].state = "Pending") = ~take_body(body).some]_vars

C14_Witness ==
    /\ last.op = "consume_body"
    /\ last.accepted
    /\ last.took
    /\ sinks[last.sink].state = "Rejected"

(***************************************************************************)
(* C15: no settlement without a buffer.  A promise that is Resolved, or    *)
(* Rejected with anything but the disturbed-or-locked TypeError, belongs   *)
(* to a Source whose buffer has been taken; while the buffer has not       *)
(* completed, every promise that passed Step 1 is Pending.                 *)
(***************************************************************************)
C15_NoSettlementWithoutBuffer ==
    /\ \A i \in 1..Len(sinks) :
          (sinks[i].state = "Resolved"
             \/ (sinks[i].state = "Rejected" /\ ~IsDisturbed(sinks[i])))
              => body.st = "Taken"
    /\ body.st = "NotYet" => \A i \in accepted : sinks[i].state = "Pending"

C15_Witness ==
    /\ body.st = "Taken"
    /\ \E i \in accepted : sinks[i].state = "Rejected" /\ ~IsDisturbed(sinks[i])
    /\ \E j \in 1..Len(sinks) : IsDisturbed(sinks[j])

(***************************************************************************)
(* C16: registration before decode.  A consume_body call that passes       *)
(* Step 1 calls set_body_promise exactly once, with its promise and kind,  *)
(* as the first call it makes: before take_body and before any settlement  *)
(* of a promise; a call rejected by Step 1 does not register; every        *)
(* decoder is dispatched on the kind that is registered; and a             *)
(* registration, once made, is never replaced.                             *)
(***************************************************************************)
Registrations(cs) == {i \in 1..Len(cs) : cs[i].call = "set_body_promise"}

RegisteredFirst ==
    /\ (last.op = "consume_body" /\ last.accepted)
        => /\ Len(last.calls) >= 2
           /\ last.calls[1] = Call("set_body_promise", last.sink, last.kind)
           /\ last.calls[2].call = "take_body"
           /\ Registrations(last.calls) = {1}
           /\ body_promise = [sink |-> last.sink, kind |-> last.kind]
    /\ (last.op = "consume_body" /\ ~last.accepted)
        => Registrations(last.calls) = {}
    /\ last.op \in {"drive", "finish"} => Registrations(last.calls) = {}
    /\ \A i \in 1..Len(last.calls) :
          last.calls[i].call = "run_package_data_algorithm"
              => /\ last.calls[i].kind = body_promise.kind
                 /\ last.calls[i].sink = body_promise.sink
    /\ \A i \in 1..Len(decodes) :
          /\ decodes[i].kind = body_promise.kind
          /\ decodes[i].sink = body_promise.sink

C16_RegistrationBeforeDecode ==
    /\ []RegisteredFirst
    /\ [][body_promise # NoPromise => body_promise' = body_promise]_vars

C16_Witness ==
    /\ last.op = "consume_body"
    /\ last.accepted
    /\ Len(last.calls) = 4
    /\ last.calls[3] = Call("run_package_data_algorithm", last.sink, last.kind)
    /\ last.calls[4].call = "settle"
    /\ Len(sinks) = 2

(***************************************************************************)
(* C17: outcome variant matches kind.  Whatever the bytes and the content  *)
(* type, the decoder dispatched for a kind returns an Err, or the Ok       *)
(* variant of that kind (Text for Text, Json for Json, BlobData for Blob,  *)
(* FormData for FormData, ArrayBuffer for ArrayBuffer), or, for Json only, *)
(* Ok(JSException); the Json decoder never returns an Err.                 *)
(***************************************************************************)
KindVariant(body_type) ==
    CASE body_type = "Text" -> "Text"
      [] body_type = "Json" -> "Json"
      [] body_type = "Blob" -> "BlobData"
      [] body_type = "FormData" -> "FormData"
      [] body_type = "ArrayBuffer" -> "ArrayBuffer"

C17_VariantMatchesKind ==
    \A n \in 1..Len(decodes) :
        LET d == decodes[n]
        IN /\ d.kind \in BodyType
           /\ d.res.ok => \/ d.res.variant = KindVariant(d.kind)
                          \/ (d.kind = "Json" /\ d.res.variant = "JSException")
           /\ d.kind = "Json" => d.res.ok

C17_Witness ==
    /\ Len(decodes) = 1
    /\ decodes[1].kind = "Json"
    /\ decodes[1].res.ok
    /\ decodes[1].res.variant = "JSException"
    /\ mime_type = <<InvalidByte>>

(***************************************************************************)
(* C18: array-buffer allocation failure.  With kind ArrayBuffer, when the  *)
(* runtime fails to create the buffer the promise is Rejected with the     *)
(* error JSFailed, a payload that holds no runtime value, and the decode   *)
(* did not return Ok(JSException); when the runtime creates the buffer the *)
(* promise is Resolved with a buffer holding exactly the bytes taken.      *)
(***************************************************************************)
C18_AllocationFailure ==
    \A n \in 1..Len(decodes) :
        LET d == decodes[n]
            p == sinks[d.sink]
        IN d.kind = "ArrayBuffer"
             => /\ d.alloc \in {"ok", "failed"}
                /\ d.alloc = "failed"
                     => /\ ~d.res.ok
                        /\ p.state = "Rejected"
                        /\ p.payload.tag = "error"
                        /\ p.payload.err = ErrorJSFailed
                        /\ "val" \notin DOMAIN p.payload
                /\ d.alloc = "ok"
                     => /\ p.state = "Resolved"
                        /\ p.payload.tag = "ArrayBuffer"
                        /\ p.payload.val = d.bytes

C18_Witness ==
    /\ Len(decodes) = 1
    /\ decodes[1].kind = "ArrayBuffer"
    /\ decodes[1].alloc = "failed"
    /\ decodes[1].bytes = <<255, 194>>
    /\ sinks[decodes[1].sink].state = "Rejected"
    /\ sinks[decodes[1].sink].payload.err = ErrorJSFailed

====
